---- MODULE Spec2Model ----
(***************************************************************************)
(* Decodificador PRT-7 (src/main.cpp): a circular doubly linked rotor of   *)
(* the letters A..Z, a doubly linked payload list, the frame parser and    *)
(* the session loop of main().                                             *)
(*                                                                         *)
(* Characters are one-character strings; Codigo gives their ASCII code so  *)
(* that the comparisons and subtractions of the source are computed on     *)
(* codes, as the source does.  The NUL terminator is the empty string.     *)
(* Pointers are node indices in allocation order; nullptr is Nulo.         *)
(***************************************************************************)
EXTENDS Integers, Sequences, FiniteSets, TLC

VARIABLES
    pc,        \* position of main(): "bucle" | "terminado" | "apagado"
    flujo,     \* bytes waiting in the serial port, not yet read
    porLlegar, \* bytes the sender has sent that have not reached the port
    parcial,   \* characters the call of leerLineaSerial in progress has
               \* stored in the buffer so far (posicion of them)
    linea,     \* char linea[100]: the text up to its NUL terminator, as the
               \* last call of leerLineaSerial that returned left it
    rotor,     \* miRotorDeMapeo: [cabeza, nodos]
    carga,     \* miListaDeCarga: [cabeza, cola, nodos]
    evento,    \* what the last step wrote to the console (its kind)
    salida,    \* the decoded messages printed by imprimirMensaje so far
    enviadas,  \* number of lines the sender has transmitted
    refGiro,   \* reference: sum of the accepted rotation amounts, mod 26
    refMensaje,\* reference: the decoding of the accepted Load lines
    entrada,   \* input of the operation under test (pure-function specs)
    resultado  \* result of the operation under test (pure-function specs)

vars == <<pc, flujo, porLlegar, parcial, linea, rotor, carga, evento, salida,
          enviadas, refGiro, refMensaje, entrada, resultado>>

(***************************************************************************)
(* Characters                                                              *)
(***************************************************************************)
NUL == ""

\* The printable ASCII characters, code 32 (space) to 126 (~), in order.  The
\* double quote, the backslash and the backtick are spelled by name.
Imprimibles ==
    <<" ", "!", "DQUOTE", "#", "$", "%", "&", "'", "(", ")", "*", "+", ",", "-",
      ".", "/", "0", "1", "2", "3", "4", "5", "6", "7", "8", "9", ":", ";",
      "<", "=", ">", "?", "@", "A", "B", "C", "D", "E", "F", "G", "H", "I",
      "J", "K", "L", "M", "N", "O", "P", "Q", "R", "S", "T", "U", "V", "W",
      "X", "Y", "Z", "[", "BACKSLASH", "]", "^", "_", "BACKTICK", "a", "b", "c", "d", "e",
      "f", "g", "h", "i", "j", "k", "l", "m", "n", "o", "p", "q", "r", "s",
      "t", "u", "v", "w", "x", "y", "z", "{", "|", "}", "~">>

Caracteres == {Imprimibles[i] : i \in 1..Len(Imprimibles)} \cup {NUL, "\n", "\r"}

\* The value of a char.
Codigo(c) ==
    IF c = NUL THEN 0
    ELSE IF c = "\n" THEN 10
    ELSE IF c = "\r" THEN 13
    ELSE 31 + (CHOOSE i \in 1..Len(Imprimibles) : Imprimibles[i] = c)

\* linea[i] of a NUL-terminated buffer holding the text s (i counted from 0).
\* The source never reads past the terminator: every read at i+1 follows a
\* test that linea[i] is not NUL.
En(s, i) == IF i < Len(s) THEN s[i + 1] ELSE NUL

(***************************************************************************)
(* int: 32 bits, two's complement                                          *)
(***************************************************************************)
IntMax == 2147483647
IntMin == -IntMax - 1
Medio == 256 * 256

\* (n * 10 + d) on 32-bit int, wrapping; computed on 16-bit halves so that no
\* intermediate value needs more than 32 bits.
Por10Mas(n, d) ==
    LET lo == n % Medio
        hi == (n \div Medio) % Medio
        lo2 == (lo * 10) + d
        hi2 == ((hi * 10) + (lo2 \div Medio)) % Medio
    IN  ((IF hi2 >= Medio \div 2 THEN hi2 - Medio ELSE hi2) * Medio) + (lo2 % Medio)

\* Mutant of PorSigno: the sign is dropped.
PorSignoSinSigno(n, signo) == n

\* n * signo on 32-bit int, wrapping, for signo in {1, -1}.
PorSigno(n, signo) ==
    IF signo = 1 THEN n ELSE IF n = IntMin THEN IntMin ELSE -n

(***************************************************************************)
(* RotorDeMapeo                                                            *)
(***************************************************************************)
Nulo == 0
alfabeto == SubSeq(Imprimibles, 34, 59)
longitud == 26

\* NodoRotor(d)
NodoRotor(d) == [dato |-> d, siguiente |-> Nulo, previo |-> Nulo]

\* The loop of the constructor; nodes are numbered 1, 2, ... as allocated, so
\* node i + 1 holds alfabeto[i] (node 1 is 'A').
RECURSIVE EnlazarRotor(_, _, _)
EnlazarRotor(nodos, actual, i) ==
    IF i < longitud
    THEN LET nuevo == Len(nodos) + 1
             n1 == Append(nodos, NodoRotor(alfabeto[i + 1]))
             n2 == [n1 EXCEPT ![actual].siguiente = nuevo,
                              ![nuevo].previo = actual]
         IN  EnlazarRotor(n2, nuevo, i + 1)
    ELSE [nodos |-> nodos, actual |-> actual]

\* Mutant of RotorDeMapeo: the circle is closed forwards only (the previo of
\* the head is left null).
RotorDeMapeoAbierto ==
    LET cab == 1
        r == EnlazarRotor(<<NodoRotor(alfabeto[1])>>, cab, 1)
    IN  [cabeza |-> cab,
         nodos  |-> [r.nodos EXCEPT ![r.actual].siguiente = cab]]

\* RotorDeMapeo::RotorDeMapeo()
RotorDeMapeo ==
    LET cab == 1
        r == EnlazarRotor(<<NodoRotor(alfabeto[1])>>, cab, 1)
    IN  [cabeza |-> cab,
         nodos  |-> [r.nodos EXCEPT ![r.actual].siguiente = cab,
                                    ![cab].previo = r.actual]]

\* The link tables of the ring: node -> node.
RECURSIVE Enlaces(_, _, _)
Enlaces(nodos, campo, i) ==
    IF i = 0 THEN <<>> ELSE Append(Enlaces(nodos, campo, i - 1), nodos[i][campo])
Siguiente(r) == Enlaces(r.nodos, "siguiente", Len(r.nodos))
Previo(r) == Enlaces(r.nodos, "previo", Len(r.nodos))

\* The table of two steps along p.
RECURSIVE Doble(_, _)
Doble(p, i) == IF i = 0 THEN <<>> ELSE Append(Doble(p, i - 1), p[p[i]])

\* The node reached from x by n steps along the link table p, n >= 0: the
\* loops "for (i = 0; i < n; i++) x = x->link".  n steps are n \div 2 double
\* steps and, for odd n, one more.
RECURSIVE Pasos(_, _, _)
Pasos(p, x, n) ==
    IF n = 0 THEN x
    ELSE IF n % 2 = 0 THEN Pasos(Doble(p, Len(p)), x, n \div 2)
    ELSE p[Pasos(Doble(p, Len(p)), x, n \div 2)]

\* Mutant of rotar: the head is moved by index arithmetic, with the remainder
\* of int division (negative for a negative dividend) and no correction.
rotarPorIndice(r, N) ==
    LET m == N % longitud
        resto == IF N < 0 /\ m # 0 THEN m - longitud ELSE m
        suma == (r.cabeza - 1) + resto
    IN  {[r EXCEPT !.cabeza = (IF suma < 0 THEN -((-suma) % longitud)
                               ELSE suma % longitud) + 1]}

\* RotorDeMapeo::rotar(N): the set of rotors the call can leave.  N = INT_MIN
\* makes N = -N overflow, which is undefined: the builds of this source either
\* keep N = INT_MIN (the loop does not run) or run the loop until i wraps
\* round to N (2^31 steps back).
rotar(r, N) ==
    IF N = 0 THEN {r}
    ELSE IF N > 0 THEN {[r EXCEPT !.cabeza = Pasos(Siguiente(r), r.cabeza, N)]}
    ELSE IF N # IntMin THEN {[r EXCEPT !.cabeza = Pasos(Previo(r), r.cabeza, -N)]}
    ELSE {r, [r EXCEPT !.cabeza =
                 Previo(r)[Pasos(Previo(r), r.cabeza, IntMax)]]}

\* Mutant of getMapeo: the walk takes one step too many (i <= posicion).
getMapeoDeMas(r, in) ==
    IF in = " " THEN " "
    ELSE IF Codigo(in) < Codigo("A") \/ Codigo(in) > Codigo("Z") THEN in
    ELSE LET posicionDelCaracter == Codigo(in) - Codigo("A")
             res == Pasos(Siguiente(r), r.cabeza, posicionDelCaracter + 1)
         IN  r.nodos[res].dato

\* Mutant of getMapeo: only the lower end of the range is tested.
getMapeoSinTope(r, in) ==
    IF in = " " THEN " "
    ELSE IF Codigo(in) < Codigo("A") THEN in
    ELSE LET posicionDelCaracter == Codigo(in) - Codigo("A")
             res == Pasos(Siguiente(r), r.cabeza, posicionDelCaracter)
         IN  r.nodos[res].dato

\* RotorDeMapeo::getMapeo(in)
getMapeo(r, in) ==
    IF in = " " THEN " "
    ELSE IF Codigo(in) < Codigo("A") \/ Codigo(in) > Codigo("Z") THEN in
    ELSE LET posicionDelCaracter == Codigo(in) - Codigo("A")
             res == Pasos(Siguiente(r), r.cabeza, posicionDelCaracter)
         IN  r.nodos[res].dato

(***************************************************************************)
(* ListaDeCarga                                                            *)
(***************************************************************************)
\* NodoCarga(d)
NodoCarga(d) == [dato |-> d, siguiente |-> Nulo, previo |-> Nulo]

\* ListaDeCarga::ListaDeCarga(): nodes are numbered 1, 2, ... as allocated.
ListaDeCarga == [cabeza |-> Nulo, cola |-> Nulo, nodos |-> <<>>]

\* Mutant of insertarAlFinal: cola is left on the first node.
insertarAlFinalSinCola(l, dato) ==
    LET nuevo == Len(l.nodos) + 1
        n1 == Append(l.nodos, NodoCarga(dato))
    IN  IF l.cabeza = Nulo
        THEN [cabeza |-> nuevo, cola |-> nuevo, nodos |-> n1]
        ELSE [cabeza |-> l.cabeza, cola |-> l.cola,
              nodos |-> [n1 EXCEPT ![l.cola].siguiente = nuevo,
                                   ![nuevo].previo = l.cola]]

\* ListaDeCarga::insertarAlFinal(dato)
insertarAlFinal(l, dato) ==
    LET nuevo == Len(l.nodos) + 1
        n1 == Append(l.nodos, NodoCarga(dato))
    IN  IF l.cabeza = Nulo
        THEN [cabeza |-> nuevo, cola |-> nuevo, nodos |-> n1]
        ELSE [cabeza |-> l.cabeza, cola |-> nuevo,
              nodos |-> [n1 EXCEPT ![l.cola].siguiente = nuevo,
                                   ![nuevo].previo = l.cola]]

\* Mutant of Recorrer: the loop stops on the last node instead of after it.
RECURSIVE RecorrerSinUltimo(_, _)
RecorrerSinUltimo(l, actual) ==
    IF actual = Nulo \/ l.nodos[actual].siguiente = Nulo THEN <<>>
    ELSE <<l.nodos[actual].dato>>
             \o RecorrerSinUltimo(l, l.nodos[actual].siguiente)

\* The loop of imprimirMensaje: the characters written from node actual on.
RECURSIVE Recorrer(_, _)
Recorrer(l, actual) ==
    IF actual = Nulo THEN <<>>
    ELSE <<l.nodos[actual].dato>> \o Recorrer(l, l.nodos[actual].siguiente)

\* ListaDeCarga::imprimirMensaje(): the text written before the end of line.
imprimirMensaje(l) == Recorrer(l, l.cabeza)

\* What is left where a node was after delete: no node.
Libre == [libre |-> TRUE]

\* The loops of the destructors: every node from actual on, along siguiente
\* up to nullptr, is deleted.
RECURSIVE Liberar(_, _)
Liberar(nodos, actual) ==
    IF actual = Nulo THEN nodos
    ELSE Liberar([nodos EXCEPT ![actual] = Libre], nodos[actual].siguiente)

\* RotorDeMapeo::~RotorDeMapeo(): the ring is opened before the head and
\* every node is deleted; cabeza is left as it was.
DestructorRotorDeMapeo(r) ==
    IF r.cabeza = Nulo THEN r
    ELSE LET ultimo == r.nodos[r.cabeza].previo
             abierto == [r.nodos EXCEPT ![ultimo].siguiente = Nulo]
         IN  [cabeza |-> r.cabeza, nodos |-> Liberar(abierto, r.cabeza)]

\* ListaDeCarga::~ListaDeCarga(): every node is deleted; cabeza and cola are
\* left as they were.
DestructorListaDeCarga(l) ==
    [cabeza |-> l.cabeza, cola |-> l.cola,
     nodos |-> Liberar(l.nodos, l.cabeza)]

(***************************************************************************)
(* Frames                                                                  *)
(***************************************************************************)
\* TramaLoad(c), TramaMap(n), and the nullptr parsearLinea returns.
TramaLoad(c) == [tipo |-> "Load", caracter |-> c]
TramaMap(n) == [tipo |-> "Map", rotacion |-> n]
SinTrama == [tipo |-> "nullptr"]

\* Mutant of procesarLoad: the character is stored as received, not decoded.
procesarLoadCrudo(t, l, r) == insertarAlFinal(l, t.caracter)

\* TramaLoad::procesar: the payload list after the call (the rotor is only read).
procesarLoad(t, l, r) == insertarAlFinal(l, getMapeo(r, t.caracter))

\* TramaMap::procesar: the rotors the call can leave (the list is not used).
procesarMap(t, r) == rotar(r, t.rotacion)

(***************************************************************************)
(* parsearLinea                                                            *)
(***************************************************************************)
EsDigito(c) == c # NUL /\ Codigo(c) >= Codigo("0") /\ Codigo(c) <= Codigo("9")

\* Mutant of LeerDigitos: the loop runs to the end of the line, taking every
\* character for a digit.
RECURSIVE LeerDigitosHastaFin(_, _, _)
LeerDigitosHastaFin(s, numero, indice) ==
    IF En(s, indice) # NUL
    THEN LeerDigitosHastaFin(s, Por10Mas(numero, (Codigo(En(s, indice))
                                                     - Codigo("0")) % Medio),
                             indice + 1)
    ELSE [numero |-> numero, indice |-> indice]

\* The digit loop: [numero, indice] when it stops.
RECURSIVE LeerDigitos(_, _, _)
LeerDigitos(s, numero, indice) ==
    IF EsDigito(En(s, indice))
    THEN LeerDigitos(s, Por10Mas(numero, Codigo(En(s, indice)) - Codigo("0")),
                     indice + 1)
    ELSE [numero |-> numero, indice |-> indice]

\* Mutant of SinNumero: only the unsigned case is caught.
SinNumeroSoloVacio(signo, indice) == indice = 2

\* Mutant of SinNumero: the test is left out.
SinNumeroNunca(signo, indice) == FALSE

\* The test for "M," or "M,-" with no number, after the digit loop.
SinNumero(signo, indice) == indice = 2 \/ (signo = -1 /\ indice = 3)

\* Mutant of parsearLinea: a Load line must be exactly three characters long.
parsearLineaCargaExacta(s) ==
    IF Len(s) < 3 THEN SinTrama
    ELSE IF En(s, 1) # "," THEN SinTrama
    ELSE IF En(s, 0) = "L"
    THEN IF Len(s) = 3 THEN TramaLoad(En(s, 2)) ELSE SinTrama
    ELSE IF En(s, 0) = "M"
    THEN LET signo == IF En(s, 2) = "-" THEN -1 ELSE 1
             desde == IF En(s, 2) = "-" THEN 3 ELSE 2
             d == LeerDigitos(s, 0, desde)
         IN  IF SinNumero(signo, d.indice)
             THEN SinTrama
             ELSE TramaMap(PorSigno(d.numero, signo))
    ELSE SinTrama

\* parsearLinea(linea)
parsearLinea(s) ==
    IF Len(s) < 3 THEN SinTrama
    ELSE IF En(s, 1) # "," THEN SinTrama
    ELSE IF En(s, 0) = "L" THEN TramaLoad(En(s, 2))
    ELSE IF En(s, 0) = "M"
    THEN LET signo == IF En(s, 2) = "-" THEN -1 ELSE 1
             desde == IF En(s, 2) = "-" THEN 3 ELSE 2
             d == LeerDigitos(s, 0, desde)
         IN  IF SinNumero(signo, d.indice)
             THEN SinTrama
             ELSE TramaMap(PorSigno(d.numero, signo))
    ELSE SinTrama

(***************************************************************************)
(* leerLineaSerial                                                         *)
(***************************************************************************)
\* The loop of leerLineaSerial over the bytes read() hands out, one each call;
\* buffer holds the posicion characters stored so far.  The loop goes round
\* while there is room in the buffer and the byte read is a character to
\* store or a terminator met with nothing stored yet.  It ends when the
\* buffer is full (return posicion > 0), or on a terminator with something
\* stored (return true); with no byte left it keeps asking (listo is FALSE:
\* the call has not returned).
EsTerminador(c) == c = "\n" \/ c = "\r"
RECURSIVE LeerBytes(_, _, _)
LeerBytes(bytes, buffer, maxLen) ==
    IF /\ Len(buffer) < maxLen - 1
       /\ bytes # <<>>
       /\ ~(EsTerminador(Head(bytes)) /\ Len(buffer) > 0)
    THEN LeerBytes(Tail(bytes),
                   IF EsTerminador(Head(bytes)) THEN buffer
                   ELSE Append(buffer, Head(bytes)),
                   maxLen)
    ELSE IF ~(Len(buffer) < maxLen - 1)
    THEN [listo |-> TRUE, ret |-> Len(buffer) > 0, buffer |-> buffer,
          resto |-> bytes]
    ELSE IF bytes = <<>>
    THEN [listo |-> FALSE, ret |-> FALSE, buffer |-> buffer, resto |-> bytes]
    ELSE [listo |-> TRUE, ret |-> TRUE, buffer |-> buffer,
          resto |-> Tail(bytes)]

\* leerLineaSerial(fd, buffer, maxLen) on the bytes waiting in the port.
leerLineaSerial(bytes, maxLen) == LeerBytes(bytes, <<>>, maxLen)

(***************************************************************************)
(* The reference decoding of a sequence of lines (spec.md sections 4.5, 6  *)
(* and 8), written from the frame text protocol and not from the parser.   *)
(***************************************************************************)
Digitos == <<"0", "1", "2", "3", "4", "5", "6", "7", "8", "9">>
RefEsDigito(c) == \E v \in 1..10 : Digitos[v] = c
RefValor(c) == (CHOOSE v \in 1..10 : Digitos[v] = c) - 1

\* Number of digits of s from position desde (1-based) on, read greedily.
RefCuantos(s, desde) ==
    CHOOSE k \in 0..Len(s) :
        /\ \A j \in desde..(desde + k - 1) : j <= Len(s) /\ RefEsDigito(s[j])
        /\ (desde + k > Len(s) \/ ~RefEsDigito(s[desde + k]))

\* The decimal value of s[desde..hasta], modulo 26.
RECURSIVE RefMod26(_, _, _)
RefMod26(s, desde, hasta) ==
    IF hasta < desde THEN 0
    ELSE (RefMod26(s, desde, hasta - 1) * 10 + RefValor(s[hasta])) % 26

RefNegativo(s) == Len(s) >= 3 /\ s[3] = "-"
RefDesde(s) == IF RefNegativo(s) THEN 4 ELSE 3

\* How the protocol table of spec.md section 6 reads one line.
RefClase(s) ==
    IF s = <<>> THEN "vacia"
    ELSE IF s[1] = "I" THEN "inicio"
    ELSE IF Len(s) >= 3 /\ SubSeq(s, 1, 3) = <<"F", "I", "N">> THEN "fin"
    ELSE IF Len(s) >= 3 /\ s[1] = "L" /\ s[2] = "," THEN "load"
    ELSE IF Len(s) >= 3 /\ s[1] = "M" /\ s[2] = ","
            /\ RefCuantos(s, RefDesde(s)) > 0 THEN "map"
    ELSE "error"

\* The amount of a Rotate line, modulo 26.
RefGiroDe(s) ==
    LET m == RefMod26(s, RefDesde(s), RefDesde(s) + RefCuantos(s, RefDesde(s)) - 1)
    IN  IF RefNegativo(s) THEN (26 - m) % 26 ELSE m

\* The character a Load of symbol c stands for after a net rotation of giro.
RefLetra(c, giro) ==
    IF \E i \in 1..26 : alfabeto[i] = c
    THEN alfabeto[(((CHOOSE i \in 1..26 : alfabeto[i] = c) - 1 + giro) % 26) + 1]
    ELSE c

(***************************************************************************)
(* main(): the session                                                     *)
(***************************************************************************)
MaxLineas == 5
TamLinea == 100

\* The lines the sender transmits (each followed by a line terminator).
Tramas ==
    { <<"I">>, <<"F", "I", "N">>, <<"F", "I", "N", "A", "L">>,
      <<"L", ",", "A">>, <<"L", ",", " ">>,
      <<"M", ",", "1">>, <<"M", ",", "-", "3">>,
      <<"M", ",", "-", "2", "1", "4", "7", "4", "8", "3", "6", "4", "8">>,
      <<"M", ",", "-">>, <<"X", ",", "5">>, <<"F">>, <<"F", "I">>, <<>> }

\* The variables of the session other than the rotor, and those of the
\* specifications that exercise one operation.
sesion == <<pc, flujo, porLlegar, parcial, linea, carga, evento, salida,
            enviadas, refGiro, refMensaje>>
prueba == <<entrada, resultado>>

\* resultado before the operation under test has run.
Pendiente == [hecho |-> FALSE]

\* The session after the constructors of main() and the opening of the port.
InitSesion ==
    /\ pc = "bucle"
    /\ flujo = <<>>
    /\ porLlegar = <<>>
    /\ parcial = <<>>
    /\ linea = <<>>
    /\ carga = ListaDeCarga
    /\ evento = "ninguno"
    /\ salida = <<>>
    /\ enviadas = 0
    /\ refGiro = 0
    /\ refMensaje = <<>>

Init ==
    /\ InitSesion
    /\ rotor = RotorDeMapeo
    /\ entrada = <<>>
    /\ resultado = <<>>

\* The sender transmits one line and its terminator.
Transmitir ==
    /\ flujo = <<>>
    /\ enviadas < MaxLineas
    /\ \E t \in Tramas : flujo' = t \o <<"\n">>
    /\ enviadas' = enviadas + 1
    /\ UNCHANGED <<pc, porLlegar, parcial, linea, rotor, carga, evento, salida,
                   refGiro, refMensaje, entrada, resultado>>

\* The reference decoding follows the line s delivered to the loop.
RefSigue(s) ==
    /\ refGiro' = IF RefClase(s) = "map" THEN (refGiro + RefGiroDe(s)) % 26
                  ELSE refGiro
    /\ refMensaje' = IF RefClase(s) = "load"
                     THEN Append(refMensaje, RefLetra(s[3], refGiro))
                     ELSE refMensaje

\* Mutant of EsInicio: only the bare line "I" is the start signal.
EsInicioExacto(s) == s = <<"I">>

\* The signal tests of the loop.
EsInicio(s) == En(s, 0) = "I"
\* Mutants of EsFin: the whole line must be FIN; only two characters tested.
EsFinExacto(s) == s = <<"F", "I", "N">>
EsFinCorto(s) == En(s, 0) = "F" /\ En(s, 1) = "I"
EsFin(s) == En(s, 0) = "F" /\ En(s, 1) = "I" /\ En(s, 2) = "N"

\* The branch of the loop body taken for the line s that leerLineaSerial
\* left in the buffer, ret being what it returned.
Rama(ret, s) ==
    IF ~ret THEN "nada"
    ELSE IF En(s, 0) = NUL THEN "vacia"
    ELSE IF EsInicio(s) THEN "inicio"
    ELSE IF EsFin(s) THEN "fin"
    ELSE IF parsearLinea(s) = SinTrama THEN "error"
    ELSE "procesar"

\* Mutant of Sale: a rejected line ends the loop too.
SaleTambienError(rama) == rama \in {"fin", "error"}

\* Whether the branch leaves the loop (break) or goes round again.
Sale(rama) == rama = "fin"

\* trama->procesar(&miListaDeCarga, &miRotorDeMapeo): the pairs of list and
\* rotor the virtual call can leave.
procesar(t, l, r) ==
    IF t.tipo = "Load"
    THEN {[carga |-> procesarLoad(t, l, r), rotor |-> r]}
    ELSE {[carga |-> l, rotor |-> r2] : r2 \in procesarMap(t, r)}

\* The C string held by a buffer whose posicion characters are buffer,
\* followed by the NUL leerLineaSerial writes: the characters before the
\* first NUL.  main() and parsearLinea read linea only up to there.
Texto(buffer) ==
    LET fin == CHOOSE k \in 1..(Len(buffer) + 1) :
                   /\ \A j \in 1..(k - 1) : buffer[j] # NUL
                   /\ (k <= Len(buffer) => buffer[k] = NUL)
    IN  SubSeq(buffer, 1, fin - 1)

\* One iteration of while (true) in main(), from leerLineaSerial to the
\* continue, the break or the end of the body, over the bytes that are in the
\* port.  When they run out before the call can return, the call waits in
\* read() with the characters it has stored (parcial) and goes on from there
\* when more bytes are in the port.
Iterar ==
    /\ pc = "bucle"
    /\ flujo # <<>>
    /\ LET leido == LeerBytes(flujo, parcial, TamLinea)
           s == Texto(leido.buffer)
           rama == Rama(leido.ret, s)
       IN  /\ flujo' = leido.resto
           /\ IF ~leido.listo
              THEN \* still inside leerLineaSerial
                   /\ parcial' = leido.buffer
                   /\ evento' = "espera"
                   /\ UNCHANGED <<pc, linea, rotor, carga, refGiro, refMensaje>>
              ELSE /\ parcial' = <<>>
                   /\ linea' = s
                   /\ RefSigue(s)
                   /\ pc' = IF Sale(rama) THEN "terminado" ELSE "bucle"
                   /\ IF rama = "procesar"
                      THEN /\ evento' = parsearLinea(s).tipo
                           /\ \E d \in procesar(parsearLinea(s), carga, rotor) :
                                 carga' = d.carga /\ rotor' = d.rotor
                      ELSE /\ evento' = rama
                           /\ UNCHANGED <<rotor, carga>>
    /\ UNCHANGED <<porLlegar, salida, enviadas, entrada, resultado>>

\* After the loop: close the port, print the decoded message and return 0,
\* which runs the destructors of miRotorDeMapeo and miListaDeCarga.
Finalizar ==
    /\ pc = "terminado"
    /\ pc' = "apagado"
    /\ salida' = Append(salida, imprimirMensaje(carga))
    /\ rotor' = DestructorRotorDeMapeo(rotor)
    /\ carga' = DestructorListaDeCarga(carga)
    /\ UNCHANGED <<flujo, porLlegar, parcial, linea, evento, enviadas, refGiro,
                   refMensaje, entrada, resultado>>

Next == Transmitir \/ Iterar \/ Finalizar

Spec == Init /\ [][Next]_vars

(***************************************************************************)
(* parsearLinea on its own: one line in, one result out                    *)
(***************************************************************************)
MaxLargo == 4

\* Texts of length n over the characters of the frame grammar.
Letras == {"L", "M", "X", ",", "-", "5", "0", "A"}
RECURSIVE Textos(_)
Textos(n) ==
    IF n = 0 THEN {<<>>}
    ELSE {Append(t, c) : t \in Textos(n - 1), c \in Letras}

\* The decimal text of the magnitude of n <= 0, without sign.
RECURSIVE Cifras(_)
Cifras(n) ==
    LET u == (10 - (n % 10)) % 10
        q == IF n % 10 = 0 THEN n \div 10 ELSE (n \div 10) + 1
    IN  IF q = 0 THEN <<Digitos[u + 1]>> ELSE Append(Cifras(q), Digitos[u + 1])

\* The decimal text of the int n, with a single leading '-' when negative.
Decimal(n) == IF n < 0 THEN <<"-">> \o Cifras(n) ELSE Cifras(-n)

\* Amounts written out in full, up to both ends of the range of int.
Enteros ==
    {0, 1, 5, -3, 9, 10, 26, -27, 99, -100, 12345, -2147483647, 2147483646,
     IntMax, IntMin, 1000000000, -1999999999}

LineasDeCarga == {<<"L", ",", c>> : c \in Caracteres \ {NUL}}
LineasDeGiro == {<<"M", ",">> \o Decimal(n) : n \in Enteros}
\* Frames followed by more text on the same line.
Colas ==
    { <<"x">>, <<" ", "7">>, <<",", "B">>, <<"-", "3">>, <<".", "5">>,
      <<"F", "I", "N">>, <<"x", "7", "y", "8">> }
LineasConCola ==
    {p \o t : p \in { <<"L", ",", "A">>, <<"L", ",", " ">>, <<"L", ",", "5">>,
                       <<"M", ",", "5">>, <<"M", ",", "-", "1", "2">>,
                       <<"M", ",", "0", "0", "7">>,
                       <<"M", ",", "-", "2", "1", "4", "7", "4", "8", "3", "6",
                         "4", "8">> },
              t \in Colas}

LineasParser ==
    UNION {Textos(n) : n \in 0..MaxLargo} \cup LineasDeCarga \cup LineasDeGiro
        \cup LineasConCola

InitParser ==
    /\ InitSesion
    /\ rotor = RotorDeMapeo
    /\ entrada \in LineasParser
    /\ resultado = Pendiente

\* parsearLinea(entrada)
Parsear ==
    /\ resultado = Pendiente
    /\ resultado' = [hecho |-> TRUE, trama |-> parsearLinea(entrada)]
    /\ UNCHANGED <<sesion, rotor, entrada>>

SpecParser == InitParser /\ [][Parsear]_vars

(***************************************************************************)
(* The rotor on its own: rotar and getMapeo from every head position       *)
(***************************************************************************)
MaxGiros == 3

\* Amounts: none, single steps, whole turns and more, both ends of int.
Giros == {0, 1, -1, 25, 26, -26, 27, -53, IntMax, -IntMax, IntMin}

\* A rotor that rotations have brought to any of its positions.
Rotores == UNION {rotar(RotorDeMapeo, k) : k \in 0..(longitud - 1)}

\* a + n is still an int (the sum of the amounts is kept exactly).
Cabe(a, n) == IF n > 0 THEN a <= IntMax - n ELSE a >= IntMin - n

InitRotor ==
    /\ InitSesion
    /\ rotor \in Rotores
    /\ entrada = <<>>
    /\ resultado = [inicio |-> rotor, antes |-> rotor, neto |-> 0]

\* rotor.rotar(n): entrada keeps the amounts applied so far, resultado the
\* rotor before the first and before this call and the sum of the amounts.
Rotar ==
    /\ Len(entrada) < MaxGiros
    /\ \E n \in Giros :
          /\ Cabe(resultado.neto, n)
          /\ rotor' \in rotar(rotor, n)
          /\ entrada' = Append(entrada, n)
          /\ resultado' = [inicio |-> resultado.inicio, antes |-> rotor,
                           neto |-> resultado.neto + n]
    /\ UNCHANGED sesion

SpecRotor == InitRotor /\ [][Rotar]_vars

\* Symbols to decode: the letters and some characters around them.
Simbolos == {alfabeto[i] : i \in 1..26} \cup {" ", "@", "[", "a", "z", "0", ","}

InitMapeo ==
    /\ InitSesion
    /\ rotor \in Rotores
    /\ entrada \in Caracteres
    /\ resultado = Pendiente

\* rotor.getMapeo(entrada): resultado keeps the character returned and the
\* rotor as the call found it.
Mapear ==
    /\ resultado = Pendiente
    /\ resultado' = [hecho |-> TRUE, sale |-> getMapeo(rotor, entrada),
                     antes |-> rotor]
    /\ UNCHANGED <<sesion, rotor, entrada>>

SpecMapeo == InitMapeo /\ [][Mapear]_vars

(***************************************************************************)
(* The session fed with start signals that carry more text, with Rotate    *)
(* lines whose number does not fit in int and with lines that hold a NUL,  *)
(* the bytes of a line reaching the port in one piece or in two            *)
(***************************************************************************)
TramasDeBorde ==
    { <<"I">>, <<"I", "F", "I", "N">>, <<"I", ",", "A">>,
      <<"L", ",", "A">>, <<"F", "I", "N">>,
      <<"L", ",", NUL, "A">>, <<NUL, "L", ",", "A">>,
      <<"M", ",", "2", "1", "4", "7", "4", "8", "3", "6", "4", "8">>,
      <<"M", ",", "-", "2", "1", "4", "7", "4", "8", "3", "6", "4", "9">>,
      <<"M", ",", "9", "9", "9", "9", "9", "9", "9", "9", "9", "9", "9">> }

\* Where the bytes of a line and its terminator may be cut in two: after the
\* second byte, before the terminator, or not at all.
Cortes(t) == {2, Len(t), Len(t) + 1} \cap 1..(Len(t) + 1)

\* The sender transmits one line and its terminator; the first bytes are in
\* the port at once, the others may reach it later.
TransmitirDeBorde ==
    /\ flujo = <<>>
    /\ porLlegar = <<>>
    /\ enviadas < MaxLineas
    /\ \E t \in TramasDeBorde : \E k \in Cortes(t) :
          /\ flujo' = SubSeq(t \o <<"\n">>, 1, k)
          /\ porLlegar' = SubSeq(t \o <<"\n">>, k + 1, Len(t) + 1)
    /\ enviadas' = enviadas + 1
    /\ UNCHANGED <<pc, parcial, linea, rotor, carga, evento, salida, refGiro,
                   refMensaje, entrada, resultado>>

\* The bytes on their way reach the port, behind those still unread.
Llegar ==
    /\ porLlegar # <<>>
    /\ flujo' = flujo \o porLlegar
    /\ porLlegar' = <<>>
    /\ UNCHANGED <<pc, parcial, linea, rotor, carga, evento, salida, enviadas,
                   refGiro, refMensaje, entrada, resultado>>

NextDeBorde == TransmitirDeBorde \/ Llegar \/ Iterar \/ Finalizar

SpecDeBorde == Init /\ [][NextDeBorde]_vars

(***************************************************************************)

(* leerLineaSerial on its own: successive calls on one stream of bytes     *)
(***************************************************************************)
MaxTramos == 2

\* The text of n characters c.
RECURSIVE Repetir(_, _)
Repetir(c, n) == IF n = 0 THEN <<>> ELSE Append(Repetir(c, n - 1), c)

\* Lines shorter than the buffer of main(), just filling it, and longer.
LineasDeSerie ==
    { <<"L", ",", "A">>, <<"F", "I", "N">>, <<"M", ",", "1">>,
      Repetir("x", TamLinea - 2), Repetir("x", TamLinea - 1),
      Repetir("x", TamLinea),
      <<"L", ",", "A">> \o Repetir("x", TamLinea - 4) \o <<"F", "I", "N">> }

Terminadores == { <<"\n">>, <<"\r">>, <<"\r", "\n">> }

\* The streams of n lines, each followed by a line terminator.
RECURSIVE Flujos(_)
Flujos(n) ==
    IF n = 0 THEN {<<>>}
    ELSE {f \o l \o t : f \in Flujos(n - 1), l \in LineasDeSerie,
                        t \in Terminadores}

InitSerie ==
    /\ pc = "bucle"
    /\ entrada \in Flujos(MaxTramos)
    /\ flujo = entrada
    /\ porLlegar = <<>>
    /\ parcial = <<>>
    /\ linea = <<>>
    /\ rotor = RotorDeMapeo
    /\ carga = ListaDeCarga
    /\ evento = "ninguno"
    /\ salida = <<>>
    /\ enviadas = 0
    /\ refGiro = 0
    /\ refMensaje = <<>>
    /\ resultado = Pendiente

\* leerLineaSerial(fd, linea, 100) returns: linea holds the text up to the
\* terminator it wrote, resultado what it returned and the bytes that were
\* waiting when it was called.  With no byte left the call does not return.
Leer ==
    /\ LET leido == leerLineaSerial(flujo, TamLinea)
       IN  /\ leido.listo
           /\ linea' = Texto(leido.buffer)
           /\ flujo' = leido.resto
           /\ resultado' = [hecho |-> TRUE, ret |-> leido.ret, antes |-> flujo]
    /\ UNCHANGED <<pc, porLlegar, parcial, rotor, carga, evento, salida,
                   enviadas, refGiro, refMensaje, entrada>>

SpecSerie == InitSerie /\ [][Leer]_vars

(***************************************************************************)

(* ListaDeCarga on its own: insertarAlFinal and imprimirMensaje            *)
(***************************************************************************)
MaxCarga == 3

\* Characters to append: letters, the space, and others getMapeo lets through.
Cargables == {"A", "Z", " ", "a", "0"}

InitLista ==
    /\ InitSesion
    /\ rotor = RotorDeMapeo
    /\ entrada = <<>>
    /\ resultado = Pendiente

\* carga.insertarAlFinal(c): entrada keeps the characters given so far.
Insertar ==
    /\ Len(entrada) < MaxCarga
    /\ \E c \in Cargables :
          /\ carga' = insertarAlFinal(carga, c)
          /\ entrada' = Append(entrada, c)
    /\ UNCHANGED <<pc, flujo, porLlegar, parcial, linea, rotor, evento, salida,
                   enviadas, refGiro, refMensaje, resultado>>

\* carga.imprimirMensaje(): resultado keeps the text written and the
\* characters that had been given when it was called.
Imprimir ==
    /\ resultado' = [hecho |-> TRUE, sale |-> imprimirMensaje(carga),
                     de |-> entrada]
    /\ UNCHANGED <<sesion, rotor, entrada>>

SpecLista == InitLista /\ [][Insertar \/ Imprimir]_vars

(***************************************************************************)

(* Properties                                                              *)
(***************************************************************************)
\* The position of the head of rotor r in the A-Z ordering, 0..25.
Posicion(r) == Codigo(r.nodos[r.cabeza].dato) - Codigo("A")

\* The characters held by the payload list l, in the order they were added.
Contenido(l) == [i \in 1..Len(l.nodos) |-> l.nodos[i].dato]

\* The line the bytes waiting in the port hold: the characters before the
\* first line terminator.
Entrega(bytes) ==
    LET fin == CHOOSE k \in 1..(Len(bytes) + 1) :
                   /\ \A j \in 1..(k - 1) : bytes[j] \notin {"\n", "\r"}
                   /\ (k <= Len(bytes) => bytes[k] \in {"\n", "\r"})
    IN  SubSeq(bytes, 1, fin - 1)

\* This step is an iteration of the loop that reads the waiting line: bytes
\* are taken from the port and a line terminator is among them.
LeeLinea ==
    /\ pc = "bucle"
    /\ Len(flujo') < Len(flujo)
    /\ \E k \in 1..Len(flujo) : flujo[k] \in {"\n", "\r"}

\* The line the loop is about to get: what the call in progress has stored
\* and the characters before the first terminator in the port.
EnCurso == Entrega(parcial \o flujo)

EmpiezaPorFIN(s) == Len(s) >= 3 /\ SubSeq(s, 1, 3) = <<"F", "I", "N">>

\* C1: once the session has ended, the message printed is the reference
\* decoding of the lines delivered: one character per accepted Load line, the
\* letter shifted by the sum of the amounts of the Rotate lines before it.
C1_MensajeDeReferencia == pc = "apagado" => salida = <<refMensaje>>

\* C2: getMapeo of a letter with index p, the head being at position h,
\* returns the letter at index (h + p) mod 26, and leaves the rotor as it was.
C2_MapeoCiclico ==
    (resultado.hecho /\ entrada \in {alfabeto[i] : i \in 1..26}) =>
        LET h == Posicion(resultado.antes)
            p == Codigo(entrada) - Codigo("A")
        IN  /\ resultado.sale = alfabeto[((h + p) % 26) + 1]
            /\ rotor = resultado.antes

C2_Testigo ==
    resultado.hecho /\ entrada = "Z" /\ Posicion(rotor) = 25
    /\ resultado.sale = "Y"

\* C3: rotar(n) from head position h leaves the head at (h + n) mod 26, for
\* every int n.
C3_RotarModulo26 ==
    Len(entrada) > 0 =>
        Posicion(rotor) =
            (Posicion(resultado.antes) + (entrada[Len(entrada)] % 26)) % 26

\* C4: after rotations whose amounts sum to zero every character decodes as
\* it did before them.
C4_GiroNetoCero ==
    resultado.neto = 0 =>
        \A c \in Simbolos : getMapeo(rotor, c) = getMapeo(resultado.inicio, c)

\* The message is printed once, at the end.
C5_Impreso ==
    /\ pc = "apagado" => Len(salida) = 1
    /\ pc # "apagado" => salida = <<>>

\* A step that consumes a FIN line, and a step after the loop has ended: the
\* one that prints the payload (and, returning from main, destroys rotor and
\* list), or any other.
C5_Paso ==
    /\ (LeeLinea /\ EmpiezaPorFIN(Entrega(flujo))) =>
           (pc' = "terminado" /\ rotor' = rotor /\ carga' = carga)
    /\ pc # "bucle" => (pc' # "bucle" /\ UNCHANGED <<linea, evento>>)
    /\ (pc = "terminado" /\ pc' = "apagado") =>
           salida' = <<Contenido(carga)>>
    /\ (pc # "bucle" /\ pc' = pc) => UNCHANGED <<rotor, carga, salida>>

\* C5: a line starting with FIN ends the loop and changes neither rotor nor
\* payload; once the loop has ended no line is parsed or applied, whatever
\* arrives; the payload is printed exactly once, as it was when the FIN line
\* was consumed.
C5_FinTermina == [](C5_Impreso) /\ [][C5_Paso]_vars

C5_Testigo ==
    pc = "apagado" /\ flujo # <<>> /\ Len(salida[1]) > 0
    /\ linea = <<"F", "I", "N", "A", "L">>

\* C6: the loop has ended only if the last line consumed starts with FIN.
C6_SoloFIN == pc # "bucle" => EmpiezaPorFIN(linea)

C6_Testigo ==
    pc = "bucle" /\ linea = <<"F", "I">> /\ evento = "error"
    /\ Len(carga.nodos) > 0 /\ Posicion(rotor) # 0

\* C7: parsearLinea accepts every well-formed frame: "L," and a character c
\* is Load(c); "M," and the decimal text of an int n is Rotate(n).
C7_AceptaBienFormadas ==
    resultado.hecho =>
        /\ \A c \in Caracteres \ {NUL} :
               entrada = <<"L", ",", c>> => resultado.trama = TramaLoad(c)
        /\ \A n \in Enteros :
               entrada = <<"M", ",">> \o Decimal(n) =>
                   resultado.trama = TramaMap(n)

C7_Testigo ==
    resultado.hecho /\ entrada = <<"M", ",", "-", "3">>
    /\ resultado.trama = TramaMap(-3)

\* C8: parsearLinea gives no frame for a line shorter than 3 characters, or
\* without ',' at index 1, or with a tag other than L and M, or with tag M and
\* no digit right after the optional '-'.
C8_Rechaza ==
    (resultado.hecho /\
        (\/ Len(entrada) < 3
         \/ entrada[2] # ","
         \/ entrada[1] \notin {"L", "M"}
         \/ (entrada[1] = "M" /\ RefCuantos(entrada, RefDesde(entrada)) = 0)))
    => resultado.trama = SinTrama

C8_Testigo ==
    resultado.hecho /\ entrada = <<"M", ",", "-">> /\ resultado.trama = SinTrama

\* A step that consumes a line the parser rejects.
C9_Paso ==
    (LeeLinea /\ LET s == Entrega(flujo)
                 IN  /\ s # <<>>
                     /\ ~EsInicio(s)
                     /\ ~EsFin(s)
                     /\ parsearLinea(s) = SinTrama)
    => (rotor' = rotor /\ carga' = carga /\ pc' = "bucle" /\ evento' = "error")

\* C9: a line the parser rejects changes neither the rotor nor the payload
\* and does not end the session: the loop reports it and reads on.
C9_RechazoNoFatal == [](evento = "error" => pc = "bucle") /\ [][C9_Paso]_vars

C9_Testigo ==
    evento = "error" /\ linea = <<"M", ",", "-">> /\ pc = "bucle"
    /\ Len(carga.nodos) > 0 /\ Posicion(rotor) # 0

\* C10: from its construction until main() returns and destroys it, the
\* ring holds the 26 letters, each once, siguiente leading from each letter
\* to the next in A-Z order (Z to A) and previo being its inverse; the head
\* is one of the 26 nodes.
C10_AnilloIntacto ==
    pc # "apagado" =>
    /\ Len(rotor.nodos) = 26
    /\ {rotor.nodos[i].dato : i \in 1..26} = {alfabeto[i] : i \in 1..26}
    /\ rotor.cabeza \in 1..26
    /\ \A i \in 1..26 :
          /\ rotor.nodos[i].siguiente \in 1..26
          /\ rotor.nodos[i].previo \in 1..26
          /\ Codigo(rotor.nodos[rotor.nodos[i].siguiente].dato) - Codigo("A")
                = (Codigo(rotor.nodos[i].dato) - Codigo("A") + 1) % 26
          /\ rotor.nodos[rotor.nodos[i].siguiente].previo = i
          /\ rotor.nodos[rotor.nodos[i].previo].siguiente = i

C10_Testigo ==
    pc = "bucle" /\ evento = "Load" /\ Posicion(rotor) = 24
    /\ Len(carga.nodos) > 0

\* s is a prefix of t.
EsPrefijo(s, t) == Len(s) <= Len(t) /\ SubSeq(t, 1, Len(s)) = s

\* C11: in every step of the session up to the printing of the message the
\* payload before the step, as imprimirMensaje would write it, is a prefix of
\* the payload after the step: no line of any kind changes or removes a
\* character already appended.  (The list is destroyed when main() returns.)
C11_SoloAgrega ==
    [][pc' # "apagado" =>
          EsPrefijo(imprimirMensaje(carga), imprimirMensaje(carga'))]_vars

C11_Testigo ==
    pc = "bucle" /\ evento = "Load"
    /\ imprimirMensaje(carga) = <<"A", "B", " ">>

\* C12: imprimirMensaje on a list built by insertarAlFinal of c1, ..., cn on
\* an empty list writes exactly c1 ... cn, in that order; with nothing
\* inserted it writes the empty message.  Printing leaves the list as it was.
C12_ImprimeLoInsertado ==
    /\ imprimirMensaje(carga) = entrada
    /\ resultado.hecho => resultado.sale = resultado.de
    /\ (resultado.hecho /\ resultado.de = <<>>) => resultado.sale = <<>>

C12_Testigo ==
    resultado.hecho /\ resultado.de = <<"A", " ", "A">>
    /\ resultado.sale = <<"A", " ", "A">> /\ entrada = resultado.de

\* C13: getMapeo returns its input as it is when the input is the space or
\* any character that is not one of the letters A..Z, whatever the position
\* of the head, and leaves the rotor as it was.
C13_FueraDelAlfabeto ==
    (resultado.hecho /\ entrada \notin {alfabeto[i] : i \in 1..26}) =>
        (resultado.sale = entrada /\ rotor = resultado.antes)

C13_Testigo ==
    resultado.hecho /\ entrada = "a" /\ Posicion(rotor) = 7
    /\ resultado.sale = "a"

\* A step that consumes a line whose first character is 'I'.
C14_Paso ==
    (LeeLinea /\ EnCurso # <<>> /\ EnCurso[1] = "I")
    => (evento' = "inicio" /\ rotor' = rotor /\ carga' = carga
        /\ pc' = "bucle" /\ linea' = EnCurso)

\* C14: a line whose first character is 'I' is the start signal whatever
\* follows the 'I' and wherever in the session it comes: the loop reports the
\* start of transmission and not a frame or a rejected frame, rotor and
\* payload stay as they were, and the loop goes on.
C14_InicioSiempre ==
    [](evento = "inicio" => (pc = "bucle" /\ linea[1] = "I"))
    /\ [][C14_Paso]_vars

C14_Testigo ==
    evento = "inicio" /\ linea = <<"I", "F", "I", "N">> /\ pc = "bucle"
    /\ Len(carga.nodos) > 0 /\ Posicion(rotor) # 0

\* The ring of r holds the 26 letters, each linked to the next in A-Z order
\* (Z to A) with previo the inverse of siguiente, and the head is one of them.
AnilloValido(r) ==
    /\ Len(r.nodos) = 26
    /\ r.cabeza \in 1..26
    /\ \A i \in 1..26 :
          /\ r.nodos[i].dato = alfabeto[i]
          /\ r.nodos[i].siguiente = (i % 26) + 1
          /\ r.nodos[i].previo = ((i + 24) % 26) + 1

\* The digits of the number of the Rotate line s, leading zeros dropped.
RefCifras(s) ==
    LET a == RefDesde(s)
        b == a + RefCuantos(s, a) - 1
        ceros == CHOOSE k \in 0..Len(s) :
                     /\ \A j \in a..(a + k - 1) : j <= b /\ s[j] = "0"
                     /\ (a + k > b \/ s[a + k] # "0")
    IN  SubSeq(s, a + ceros, b)

\* The digit text d, without leading zeros, denotes more than INT_MAX.
RefMayorQueInt(d) ==
    LET tope == Cifras(-IntMax)
    IN  \/ Len(d) > Len(tope)
        \/ /\ Len(d) = Len(tope)
           /\ \E j \in 1..Len(d) :
                 /\ \A i \in 1..(j - 1) : d[i] = tope[i]
                 /\ RefValor(d[j]) > RefValor(tope[j])

\* s is a Rotate line whose number has a magnitude no int holds.
RefFueraDeRango(s) == RefClase(s) = "map" /\ RefMayorQueInt(RefCifras(s))

\* A step that consumes a Rotate line whose magnitude is out of range.
C15_Paso ==
    (LeeLinea /\ RefFueraDeRango(EnCurso))
    => (evento' = "Map" /\ pc' = "bucle" /\ carga' = carga
        /\ AnilloValido(rotor') /\ linea' = EnCurso)

\* C15: a Rotate line whose magnitude is outside the range of int is parsed
\* and applied without ending the session: the loop goes on, the payload is
\* as it was, and the rotor is, then and for as long as it lives, the ring
\* of 26 letters with its head on one of them, so that the lines that follow
\* are decoded on a valid rotor.
C15_DesbordeInocuo ==
    [](pc # "apagado" => AnilloValido(rotor)) /\ [][C15_Paso]_vars

C15_Testigo ==
    /\ evento = "Load" /\ pc = "bucle"
    /\ linea = <<"L", ",", "A">>
    /\ imprimirMensaje(carga) = <<"A", "R">>
    /\ RefFueraDeRango(<<"M", ",", "9", "9", "9", "9", "9", "9", "9", "9", "9",
                         "9", "9">>)
    /\ ~RefFueraDeRango(<<"M", ",", "0", "2", "1", "4", "7", "4", "8", "3", "6",
                          "4", "7">>)

\* The kind of error spec.md section 4.3 gives the line s, "ninguno" for a
\* line that is a frame.
RefError(s) ==
    IF Len(s) < 3 \/ s[2] # "," THEN "MalformedFrame"
    ELSE IF s[1] \notin {"L", "M"} THEN "UnknownType"
    ELSE IF s[1] = "M" /\ RefCuantos(s, RefDesde(s)) = 0 THEN "MissingNumber"
    ELSE "ninguno"

\* One rejected line or more of each kind.
Rechazadas ==
    { <<"A", "B">>, <<"L", "A", "B">>, <<"X", ",", "5">>, <<"M", ",">>,
      <<"M", ",", "-">> }

\* C16 as stated: the result parsearLinea gives for a rejected line tells the
\* kind of its error, so it differs from the result for every rejected line
\* of another kind.
C16_ClaseDeError ==
    (resultado.hecho /\ RefError(entrada) # "ninguno") =>
        \A t \in Rechazadas :
            RefError(t) # RefError(entrada) => parsearLinea(t) # resultado.trama

\* C16 amended: parsearLinea rejects a line exactly when it has one of the
\* three kinds of error, and its result is then the same nullptr whatever the
\* kind: the result of every other rejected line.
C16_RechazoSinClase ==
    resultado.hecho =>
        /\ RefError(entrada) # "ninguno" <=> resultado.trama = SinTrama
        /\ RefError(entrada) # "ninguno" =>
               \A t \in Rechazadas : parsearLinea(t) = resultado.trama

C16_Testigo ==
    /\ resultado.hecho /\ entrada = <<"X", ",", "5">>
    /\ resultado.trama = SinTrama
    /\ {RefError(t) : t \in Rechazadas}
           = {"MalformedFrame", "UnknownType", "MissingNumber"}

\* C17: for a line of three characters or more that starts with "L," the
\* frame is the Load of the character at index 2, whatever follows it: the
\* frame of the first three characters alone.
C17_CargaIgnoraCola ==
    (resultado.hecho /\ Len(entrada) >= 3 /\ entrada[1] = "L"
        /\ entrada[2] = ",") =>
        /\ resultado.trama = [tipo |-> "Load", caracter |-> entrada[3]]
        /\ resultado.trama = parsearLinea(SubSeq(entrada, 1, 3))

C17_Testigo ==
    /\ resultado.hecho /\ entrada = <<"L", ",", "A", "F", "I", "N">>
    /\ resultado.trama = TramaLoad("A")

\* The decimal value of the digits s[desde..hasta] (nine digits at most).
RECURSIVE RefNumero(_, _, _)
RefNumero(s, desde, hasta) ==
    IF hasta < desde THEN 0
    ELSE (RefNumero(s, desde, hasta - 1) * 10) + RefValor(s[hasta])

\* C20: for a line "M,", an optional '-', one digit or more and then any text
\* that starts with a character that is no digit, the frame is the Rotate of
\* the number the digits denote, signed: the frame of the line cut after its
\* digits.  The text after the digits is ignored and the line is accepted.
C20_GiroIgnoraCola ==
    (resultado.hecho /\ RefClase(entrada) = "map") =>
        LET a == RefDesde(entrada)
            b == a + RefCuantos(entrada, a) - 1
        IN  /\ resultado.trama.tipo = "Map"
            /\ resultado.trama = parsearLinea(SubSeq(entrada, 1, b))
            /\ (b - a < 9) =>
                   resultado.trama.rotacion =
                       IF RefNegativo(entrada) THEN -RefNumero(entrada, a, b)
                       ELSE RefNumero(entrada, a, b)

C20_Testigo ==
    /\ resultado.hecho
    /\ entrada = <<"M", ",", "-", "1", "2", "x", "7", "y", "8">>
    /\ resultado.trama = TramaMap(-12)

\* A step that consumes a Load line or a Rotate line.
C18_Paso ==
    LET s == Entrega(flujo)
    IN  /\ (LeeLinea /\ RefClase(s) = "load") =>
               /\ imprimirMensaje(carga') =
                      Append(imprimirMensaje(carga),
                             RefLetra(s[3], Posicion(rotor)))
               /\ Len(carga'.nodos) = Len(carga.nodos) + 1
               /\ rotor' = rotor
               /\ evento' = "Load"
        /\ (LeeLinea /\ RefClase(s) = "map") =>
               /\ carga' = carga
               /\ rotor'.nodos = rotor.nodos
               /\ rotor'.cabeza \in 1..26
               /\ evento' = "Map"

\* C18: a Load line appends exactly one character to the payload, the
\* decoding of its symbol under the head as it is, and leaves the rotor as it
\* was; a Rotate line leaves the payload as it was and changes nothing of the
\* rotor but its head.
C18_EfectoDeTrama == [][C18_Paso]_vars

C18_Testigo ==
    /\ evento = "Map" /\ linea = <<"M", ",", "-", "3">>
    /\ Posicion(rotor) = 24
    /\ imprimirMensaje(carga) = <<"B", " ">>

\* The bytes f without the line terminators it starts with.
RECURSIVE SinTerminadores(_)
SinTerminadores(f) ==
    IF f # <<>> /\ Head(f) \in {"\n", "\r"} THEN SinTerminadores(Tail(f))
    ELSE f

\* The bytes f, the rest of the stream whole, start at the start of a line.
EnBorde(whole, f) ==
    LET leidos == Len(whole) - Len(f)
    IN  leidos = 0 \/ whole[leidos] \in {"\n", "\r"}

\* C19: every line leerLineaSerial returns is a whole line of the stream: the
\* call started at the start of a line and the text it returns is all the
\* characters up to the next line terminator, however long the line is, so
\* that no line of the stream is returned in two pieces.
C19_LineaEntera ==
    resultado.hecho =>
        /\ resultado.ret
        /\ EnBorde(entrada, resultado.antes)
        /\ linea = Entrega(SinTerminadores(resultado.antes))

====
